---- MODULE Spec2Model ----
(***************************************************************************)
(* The real-time simulation-and-broadcast engine of the pricing simulator  *)
(* (backend server.js): the periodic tick (generateMockData), the store    *)
(* currentPricingData, the capped pricingHistory, the scenario registry    *)
(* activeScenarios with its setTimeout removal, the scoring call           *)
(* getPriceMultiplier and the socket.io fan-out; and of the dashboard the  *)
(* views built from a fetched history (PricingChart, CityDetailModal), the *)
(* scenario control panel and the client hook usePricingData.              *)
(*                                                                         *)
(* Time is in milliseconds.  The clock only moves to the instant at which  *)
(* the next timer is due, and a due timer runs before the clock moves on;  *)
(* requests, process exits and due timers of one instant run in any order. *)
(* Money amounts are integers: fuel prices as sampled are in thousandths,  *)
(* a stored fuel_price is in hundredths (toFixed(2)); a multiplier as      *)
(* computed is in ten-thousandths, a stored one in thousandths             *)
(* (toFixed(3)).  The numbers of the program are doubles: toFixed rounds   *)
(* the double, which sits just above or just below a decimal tie.          *)
(***************************************************************************)
EXTENDS Integers, Sequences, FiniteSets, TLC

VARIABLES
  now,                 \* wall clock, ms since the server started
  alive,               \* the node process is running
  booted,              \* the top-level script of server.js has run
  intervalDue,         \* due time of the setInterval(generateMockData) timer
  passes,              \* the calls of generateMockData, in start order,
                       \* each with the number of io.emit calls it has made
                       \* and the events and promise of its last scoring call
  currentPricingData,  \* city -> cityData (object, keys appear as written)
  pricingHistory,      \* array of {city, ...cityData}
  activeScenarios,     \* Map city -> effects
  timeouts,            \* pending setTimeout removals of POST /api/scenario
  posts,               \* number of POST /api/scenario requests handled
  sockets,             \* socket.io clients, each with the last message sent to it
  lastResponse,        \* body of the last HTTP response
  appended,            \* history log: every record ever pushed, in order
  applied,             \* history log: city -> last accepted scenario
  lastSample,          \* history log: city -> last sampling since that scenario
  lastFailure,         \* history log: city -> last failed scoring call
  hangs,               \* number of scoring processes that never exit
  panel,               \* ScenarioControls: the scenarios shown as active and
                       \* the pending timers that remove them
  hook                 \* usePricingData: socket, isConnected, reconnect timer

vars == <<now, alive, booted, intervalDue, passes, currentPricingData,
          pricingHistory, activeScenarios, timeouts, posts, sockets,
          lastResponse, appended, applied, lastSample, lastFailure, hangs,
          panel, hook>>

(***************************************************************************)
(* Bounds of the model                                                     *)
(***************************************************************************)
MaxTicks == 1         \* interval firings explored by Spec
MaxScenarioTicks == 12 \* interval firings explored by SpecScenario
MaxHistoryTicks == 101 \* interval firings explored by SpecHistory
MaxPosts == 2         \* scenario requests explored
MaxRequestTicks == 1  \* interval firings up to which SpecScenario and
                      \* SpecPanel explore scenario requests
MaxSockets == 1       \* socket.io clients
MaxHangs == 1         \* scoring processes that never exit
MaxStalledTicks == 32 \* interval firings explored by SpecStalled
ResponseDelay == 90   \* ms a response of the scenario endpoint can take

(***************************************************************************)
(* Configuration of server.js                                              *)
(***************************************************************************)
CITIES == <<"Mumbai", "Delhi", "Bengaluru", "Hyderabad", "Chennai">>
TICK_INTERVAL == 5000
SCENARIO_DURATION == 60000
HISTORY_LIMIT == 100

\* The cities in the order generateMockData visits them, and as the set
\* CITIES.includes tests
Cities == CITIES
CitySet == {Cities[i] : i \in 1..Len(Cities)}

SCENARIO_EFFECTS ==
  [DEMAND_SURGE |-> [demand_level |-> 10, duration |-> SCENARIO_DURATION],
   FUEL_SPIKE |-> [fuel_price |-> 3000, duration |-> SCENARIO_DURATION],
   TRAFFIC_JAM |-> [traffic_index |-> 10, duration |-> SCENARIO_DURATION],
   GLOBAL_CRISIS |-> [fuel_price |-> 3000, traffic_index |-> 10,
                      demand_level |-> 10, duration |-> SCENARIO_DURATION]]

EventTypes == DOMAIN SCENARIO_EFFECTS

DefaultExplanation == "Price calculated based on current market conditions."
FallbackExplanation ==
  "Price calculated using fallback algorithm due to ML model unavailability."

(***************************************************************************)
(* JavaScript helpers                                                      *)
(***************************************************************************)
None == [none |-> TRUE]

\* obj[key] = val on an object / Map.set(key, val)
Put(obj, key, val) ==
  [k \in (DOMAIN obj) \cup {key} |-> IF k = key THEN val ELSE obj[k]]

\* Map.delete(key)
Delete(obj, key) == [k \in (DOMAIN obj) \ {key} |-> obj[k]]

\* Map.get(key): None stands for undefined
Get(obj, key) == IF key \in DOMAIN obj THEN obj[key] ELSE None

\* if (obj.field): the property exists and is not 0
Truthy(obj, field) == field \in DOMAIN obj /\ obj[field] # 0

RECURSIVE Pow2(_)
Pow2(n) == IF n = 0 THEN 1 ELSE 2 * Pow2(n - 1)

\* 2^n modulo m, by squaring
RECURSIVE Pow2Mod(_, _)
Pow2Mod(n, m) ==
  IF n = 0 THEN 1 % m
  ELSE IF n % 2 = 0
       THEN LET h == Pow2Mod(n \div 2, m) IN (h * h) % m
       ELSE (2 * Pow2Mod(n - 1, m)) % m

\* The binary exponent e of the positive number num/den:
\* 2^e <= num/den < 2^(e+1)
RECURSIVE Binade(_, _)
Binade(num, den) ==
  IF num >= 2 * den THEN Binade(num, 2 * den) + 1
  ELSE IF num < den THEN Binade(2 * num, den) - 1
  ELSE 0

\* parseFloat(text) is the double nearest to the decimal text, and
\* x.toFixed(digits) rounds the exact value of the double x.  A decimal tie
\* q / (2^twos * odd), with q odd, is a double only if odd divides q;
\* otherwise the double nearest to it, with its 53-bit significand, lies
\* above the tie exactly when the remainder of q * 2^(52 - twos - e) by odd
\* is more than half of odd.  A tie that is a double rounds up.
TieRoundsUp(q, twos, odd, e) ==
  LET rem == ((q % odd) * Pow2Mod(52 - twos - e, odd)) % odd IN
  rem = 0 \/ 2 * rem > odd

\* The fuel price is the double sum 1.50 + Math.random() * 1.00.  For a
\* random number r/1000 whose sum is a decimal tie: the double y nearest to
\* r/1000 is Y * 2^(-52-k), with 2^(-k) <= r/1000 < 2^(1-k); the sum
\* 1.5 + y is rounded to a multiple of the result's last binary place (ties
\* to even), G in units of 2^(-52-k); the rounded sum lies above the
\* decimal tie when that rounding went up, below it when it went down, and
\* on the side of y when the sum needed no rounding.
FuelTieRoundsUp(r) ==
  LET q == r \div 5
      k == -Binade(r, 1000)
      rem == ((q % 25) * Pow2Mod(49 + k, 25)) % 25
      G == (IF r < 500 THEN 1 ELSE 2) * Pow2(k)
      \* floor(q * 2^(49+k) / 25) modulo 2G; 41 is the inverse of 25
      I == (2 * G - ((rem * 41) % (2 * G))) % (2 * G)
      Y == (I + (IF 2 * rem > 25 THEN 1 ELSE 0)) % (2 * G)
      m == Y % G
  IN  IF m = 0 THEN rem = 0 \/ 2 * rem > 25
      ELSE IF 2 * m < G THEN FALSE
      ELSE IF 2 * m > G THEN TRUE
      ELSE Y # m

\* parseFloat(fuelPrice.toFixed(2)) of a fuel price in thousandths, result
\* in hundredths: x.toFixed(2) rounds the exact value of the double x, and a
\* double is never a decimal tie unless the tie is a binary fraction.
ToFixed2(milli) ==
  IF milli % 10 # 5 THEN (milli + 5) \div 10
  ELSE IF FuelTieRoundsUp(milli - 1500)
       THEN milli \div 10 + 1 ELSE milli \div 10

\* parseFloat(x.toFixed(3)) of a positive value in ten-thousandths, result
\* in thousandths.  A tie is (2j+1)/2000 = (2j+1) / (2^4 * 125).
ToFixed3(tenThousandths) ==
  IF tenThousandths % 10 # 5 THEN (tenThousandths + 5) \div 10
  ELSE LET j == tenThousandths \div 10 IN
       IF TieRoundsUp(2 * j + 1, 4, 125, Binade(tenThousandths, 10000))
       THEN j + 1 ELSE j

Min(S) == CHOOSE x \in S : \A y \in S : x <= y

(***************************************************************************)
(* The scoring call: getPriceMultiplier and the python process             *)
(***************************************************************************)
\* Stand-in for ml_model/predict.py, in ten-thousandths: a fixed function of
\* the three features whose shape differs from the fallback formula.
Predict(fuelPrice, trafficIndex, demandLevel) ==
  8000 + 4 * (fuelPrice - 1500) + 222 * (trafficIndex - 1)
       + 333 * (demandLevel - 1)

\* Stand-in for the explanation line ml_model/predict.py prints: the
\* dominant factor of the three features.
Explain(fuelPrice, trafficIndex, demandLevel) ==
  IF demandLevel >= trafficIndex THEN "Driven by current demand."
  ELSE "Driven by current traffic."

Num(v) == [numeric |-> TRUE, value |-> v, text |-> ""]
Text(s) == [numeric |-> FALSE, value |-> 0, text |-> s]

\* What the spawned process can do, as seen through its events.
ProcOutcomes == {"ok", "ok_one_line", "garbage", "exit_1", "spawn_error"}
\* The two ways a call ends for a pass: resolved or rejected
TickOutcomes == {"ok", "exit_1"}

ProcResult(outcome, call) ==
  LET m == Predict(call.fuelPrice, call.trafficIndex, call.demandLevel)
      x == Explain(call.fuelPrice, call.trafficIndex, call.demandLevel) IN
  CASE outcome = "ok" ->
         [event |-> "close", code |-> 0, stdout |-> <<Num(m), Text(x)>>]
    [] outcome = "ok_one_line" ->
         [event |-> "close", code |-> 0, stdout |-> <<Num(m)>>]
    [] outcome = "garbage" ->
         [event |-> "close", code |-> 0, stdout |-> <<Text("Traceback")>>]
    [] outcome = "exit_1" ->
         [event |-> "close", code |-> 1, stdout |-> <<>>]
    [] OTHER ->
         [event |-> "error", code |-> 0, stdout |-> <<>>]

\* The isNaN check left out: a first line that is not a number resolves.
getPriceMultiplierNoNaNCheck(proc) ==
  IF proc.event = "error" \/ proc.code # 0
  THEN [ok |-> FALSE, priceMultiplier |-> 0, explanation |-> ""]
  ELSE LET lines == proc.stdout
           first == IF Len(lines) >= 1 THEN lines[1] ELSE Text("")
           explanation ==
             IF Len(lines) >= 2 /\ lines[2].text # ""
             THEN lines[2].text ELSE DefaultExplanation
       IN [ok |-> TRUE, priceMultiplier |-> first.value,
           explanation |-> explanation]

\* How the promise of getPriceMultiplier settles on the process's event.
getPriceMultiplier(proc) ==
  IF proc.event = "error" \/ proc.code # 0
  THEN [ok |-> FALSE, priceMultiplier |-> 0, explanation |-> ""]
  ELSE LET lines == proc.stdout
           first == IF Len(lines) >= 1 THEN lines[1] ELSE Text("")
           explanation ==
             IF Len(lines) >= 2 /\ lines[2].text # ""
             THEN lines[2].text ELSE DefaultExplanation
       IN IF ~first.numeric
          THEN [ok |-> FALSE, priceMultiplier |-> 0, explanation |-> ""]
          ELSE [ok |-> TRUE, priceMultiplier |-> first.value,
                explanation |-> explanation]

\* The events the child process emits.  A process that fails to start emits
\* 'error' and then 'close' with a negative code; the others emit 'close'.
ProcEvents(outcome, call) ==
  IF outcome = "spawn_error"
  THEN <<ProcResult(outcome, call),
         [event |-> "close", code |-> -2, stdout |-> <<>>]>>
  ELSE <<ProcResult(outcome, call)>>

PendingPromise ==
  [state |-> "pending", settles |-> 0,
   result |-> [ok |-> FALSE, priceMultiplier |-> 0, explanation |-> ""]]

\* One event handler runs and calls resolve or reject; on a promise that has
\* settled the call has no effect.
Settle(promise, ev) ==
  IF promise.state # "pending" THEN promise
  ELSE LET r == getPriceMultiplier(ev) IN
       [state |-> IF r.ok THEN "fulfilled" ELSE "rejected",
        settles |-> promise.settles + 1, result |-> r]

RECURSIVE Settlement(_, _)
Settlement(promise, events) ==
  IF events = <<>> THEN promise
  ELSE Settlement(Settle(promise, Head(events)), Tail(events))

\* The promise of one call of getPriceMultiplier once the process is done
ScoringCall(outcome, call) ==
  Settlement(PendingPromise, ProcEvents(outcome, call))

CallLog(outcome, call) ==
  [events |-> ProcEvents(outcome, call), promise |-> ScoringCall(outcome, call)]

\* The fallback of the catch branch, in ten-thousandths:
\* 1.0 + (fuelPrice - 1.5)*0.2 + (trafficIndex - 5.5)*0.05 + (demandLevel - 5.5)*0.08
FallbackMultiplier(fuelPrice, trafficIndex, demandLevel) ==
  10000 + (fuelPrice - 1500) * 2 + (10 * trafficIndex - 55) * 50
        + (10 * demandLevel - 55) * 80

(***************************************************************************)
(* generateMockData                                                        *)
(***************************************************************************)
\* Math.random() is drawn in thousandths, r in 0..999 for [0, 1).
\* 1.50 + Math.random() * 1.00, in thousandths
SampleFuel(r) == 1500 + r

\* Math.floor(1 + Math.random() * 11): the index can reach 11
SampleIndexUpTo11(r) == (1000 + 11 * r) \div 1000

\* Math.floor(1 + Math.random() * 10)
SampleIndex(r) == (1000 + 10 * r) \div 1000

\* The three draws of one loop iteration
Draw(r1, r2, r3) ==
  [fuelPrice |-> SampleFuel(r1), trafficIndex |-> SampleIndex(r2),
   demandLevel |-> SampleIndex(r3)]

Samples == {Draw(0, 999, 0), Draw(996, 0, 999)}

SteadySamples == {Draw(504, 450, 450)}

\* The smallest and the largest draws
EdgeSamples == {Draw(0, 0, 0), Draw(999, 999, 999)}

\* Every field forced to the crisis values whatever the scenario lists.
ApplyScenarioForcesAll(smp, activeScenario) ==
  IF activeScenario = None THEN smp
  ELSE [fuelPrice |-> SCENARIO_EFFECTS.GLOBAL_CRISIS.fuel_price,
        trafficIndex |-> SCENARIO_EFFECTS.GLOBAL_CRISIS.traffic_index,
        demandLevel |-> SCENARIO_EFFECTS.GLOBAL_CRISIS.demand_level]

\* The sampled values with the fields of the active scenario forced.
ApplyScenario(smp, activeScenario) ==
  IF activeScenario = None THEN smp
  ELSE [fuelPrice |-> IF Truthy(activeScenario, "fuel_price")
                      THEN activeScenario.fuel_price ELSE smp.fuelPrice,
        trafficIndex |-> IF Truthy(activeScenario, "traffic_index")
                         THEN activeScenario.traffic_index
                         ELSE smp.trafficIndex,
        demandLevel |-> IF Truthy(activeScenario, "demand_level")
                        THEN activeScenario.demand_level
                        ELSE smp.demandLevel]

\* Top of the loop body for city number i of pass p: sample, force the
\* scenario's fields, spawn the scoring process.  Gives the pending call.
SpawnFor(i, smp) ==
  LET v == ApplyScenario(smp, Get(activeScenarios, Cities[i])) IN
  [fuelPrice |-> v.fuelPrice, trafficIndex |-> v.trafficIndex,
   demandLevel |-> v.demandLevel, hung |-> FALSE,
   drawn |-> smp]  \* not an argument of the call: the draws of this city

SampleLog(p, i, smp) ==
  LET scen == Get(activeScenarios, Cities[i])
      v == ApplyScenario(smp, scen) IN
  [lastSample EXCEPT ![Cities[i]] =
     [at |-> now, pass |-> p, scenario |-> scen, drawn |-> smp, used |-> v]]

\* A full history takes no further record.
PushHistoryWhenRoom(history, rec) ==
  IF Len(history) >= HISTORY_LIMIT THEN history ELSE Append(history, rec)

\* The trim keeps the oldest 100 records instead of the newest.
PushHistoryKeepOldest(history, rec) ==
  LET h == Append(history, rec) IN
  IF Len(h) > HISTORY_LIMIT THEN SubSeq(h, 1, HISTORY_LIMIT) ELSE h

\* pricingHistory.push(rec); if (length > 100) pricingHistory = slice(-100)
PushHistory(history, rec) ==
  LET h == Append(history, rec) IN
  IF Len(h) > HISTORY_LIMIT
  THEN SubSeq(h, Len(h) - HISTORY_LIMIT + 1, Len(h))
  ELSE h

\* fuelPrice, trafficIndex and demandLevel as variables shared by all passes
\* instead of locals of one loop iteration: the record takes the values of
\* the latest sampling of the city by any pass.
CityDataSharedLocals(p, call, priceMultiplier, explanation) ==
  LET latest == lastSample[Cities[passes[p].idx]].used IN
  [fuel_price |-> ToFixed2(latest.fuelPrice),
   traffic_index |-> latest.trafficIndex,
   demand_level |-> latest.demandLevel,
   price_multiplier |-> ToFixed3(priceMultiplier),
   explanation |-> explanation,
   timestamp |-> now,
   pass |-> p]

\* The timestamp taken when the pass starts instead of when the record is
\* built.
CityDataStampedAtStart(p, call, priceMultiplier, explanation) ==
  [fuel_price |-> ToFixed2(call.fuelPrice),
   traffic_index |-> call.trafficIndex,
   demand_level |-> call.demandLevel,
   price_multiplier |-> ToFixed3(priceMultiplier),
   explanation |-> explanation,
   timestamp |-> (p - 1) * TICK_INTERVAL,
   pass |-> p]

CityData(p, call, priceMultiplier, explanation) ==
  [fuel_price |-> ToFixed2(call.fuelPrice),
   traffic_index |-> call.trafficIndex,
   demand_level |-> call.demandLevel,
   price_multiplier |-> ToFixed3(priceMultiplier),
   explanation |-> explanation,
   timestamp |-> now,
   pass |-> p]     \* not a field of the program: the pass that wrote it

HistoryRecord(city, d) ==
  [city |-> city, fuel_price |-> d.fuel_price,
   traffic_index |-> d.traffic_index, demand_level |-> d.demand_level,
   price_multiplier |-> d.price_multiplier, explanation |-> d.explanation,
   timestamp |-> d.timestamp, pass |-> d.pass]

\* io.emit('pricing-update', data): every connected client is sent data
\* (pass is not part of the message: the pass that emitted it, 0 for the
\* snapshot sent on connection)
Emit(p, data) ==
  [s \in DOMAIN sockets |->
     IF sockets[s].connected
     THEN [sockets[s] EXCEPT !.inbox = [data |-> data, pass |-> p]]
     ELSE sockets[s]]

NewSocket == [connected |-> FALSE, inbox |-> None]

\* A call of generateMockData up to its first await.
StartPass(smp) ==
  LET p == Len(passes) + 1 IN
  /\ passes' = Append(passes,
       [status |-> "waiting", idx |-> 1, newData |-> <<>>,
        call |-> SpawnFor(1, smp), emitted |-> 0, lastCall |-> None])
  /\ lastSample' = SampleLog(p, 1, smp)

Init ==
  /\ now = 0
  /\ alive = TRUE
  /\ booted = FALSE
  /\ intervalDue = 0
  /\ passes = <<>>
  /\ currentPricingData = <<>>
  /\ pricingHistory = <<>>
  /\ activeScenarios = <<>>
  /\ timeouts = {}
  /\ posts = 0
  /\ sockets = [s \in 1..MaxSockets |-> NewSocket]
  /\ lastResponse = None
  /\ appended = <<>>
  /\ applied = [c \in CitySet |-> None]
  /\ lastSample = [c \in CitySet |-> None]
  /\ lastFailure = [c \in CitySet |-> None]
  /\ hangs = 0
  /\ panel = [active |-> <<>>, loading |-> <<>>, timers |-> {},
              requests |-> {}, responses |-> {}, sent |-> 0]
  /\ hook = [socket |-> FALSE, isConnected |-> FALSE, isLoading |-> TRUE,
             connecting |-> FALSE, accepted |-> FALSE, timer |-> 0,
             connects |-> 0, sid |-> 0, deps |-> <<FALSE, FALSE>>,
             retryAt |-> 0, attempts |-> 0]

\* The top-level script: setInterval(generateMockData, 5000), the initial
\* generateMockData(), the handlers, server.listen.
Startup(smp) ==
  /\ ~booted
  /\ booted' = TRUE
  /\ intervalDue' = now + TICK_INTERVAL
  /\ StartPass(smp)
  /\ lastResponse' = None
  /\ UNCHANGED <<now, alive, currentPricingData, pricingHistory,
                 activeScenarios, timeouts, posts, sockets, appended,
                 applied, lastFailure, hangs>>
  /\ UNCHANGED <<panel, hook>>

\* The interval timer is due: it is re-armed and a new pass starts, whether
\* or not an earlier pass is still waiting.
IntervalFires(smp) ==
  /\ booted /\ alive
  /\ intervalDue <= now
  /\ intervalDue' = now + TICK_INTERVAL
  /\ StartPass(smp)
  /\ lastResponse' = None
  /\ UNCHANGED <<now, alive, booted, currentPricingData, pricingHistory,
                 activeScenarios, timeouts, posts, sockets, appended,
                 applied, lastFailure, hangs>>
  /\ UNCHANGED <<panel, hook>>

Waiting(p) ==
  /\ p \in DOMAIN passes
  /\ passes[p].status = "waiting"
  /\ ~passes[p].call.hung

\* The snapshot is published before the state of the last city is written
\* to the store and pushed to the history.
ScoringResolvesPublishesFirst(p, outcome, smp) ==
  /\ booted /\ alive
  /\ Waiting(p)
  /\ LET pass == passes[p]
         r == ScoringCall(outcome, pass.call).result
         city == Cities[pass.idx]
         cityData == CityData(p, pass.call, r.priceMultiplier, r.explanation)
         newData == Put(pass.newData, city, cityData)
         rec == HistoryRecord(city, cityData)
     IN
     /\ r.ok
     /\ IF pass.idx < Len(Cities)
        THEN /\ currentPricingData' = Put(currentPricingData, city, cityData)
             /\ pricingHistory' = PushHistory(pricingHistory, rec)
             /\ appended' = Append(appended, rec)
        ELSE UNCHANGED <<currentPricingData, pricingHistory, appended>>
     /\ IF pass.idx < Len(Cities)
        THEN /\ passes' = [passes EXCEPT ![p] =
                  [status |-> "waiting", idx |-> pass.idx + 1,
                   newData |-> newData, call |-> SpawnFor(pass.idx + 1, smp),
                   emitted |-> 0, lastCall |-> CallLog(outcome, pass.call)]]
             /\ lastSample' = SampleLog(p, pass.idx + 1, smp)
             /\ sockets' = sockets
        ELSE /\ passes' = [passes EXCEPT ![p] =
                  [status |-> "fulfilled", idx |-> pass.idx,
                   newData |-> newData, call |-> None,
                   emitted |-> pass.emitted + 1,
                   lastCall |-> CallLog(outcome, pass.call)]]
             /\ lastSample' = lastSample
             /\ sockets' = Emit(p, newData)
  /\ lastResponse' = None
  /\ UNCHANGED <<now, alive, booted, intervalDue, activeScenarios, timeouts,
                 posts, applied, lastFailure, hangs>>
  /\ UNCHANGED <<panel, hook>>

\* The scoring process of pass p exits and the promise resolves: the rest of
\* the try block, then either the next city up to its await, or the emit.
ScoringResolves(p, outcome, smp) ==
  /\ booted /\ alive
  /\ Waiting(p)
  /\ LET pass == passes[p]
         r == ScoringCall(outcome, pass.call).result
         city == Cities[pass.idx]
         cityData == CityData(p, pass.call, r.priceMultiplier, r.explanation)
         newData == Put(pass.newData, city, cityData)
         rec == HistoryRecord(city, cityData)
     IN
     /\ r.ok
     /\ currentPricingData' = Put(currentPricingData, city, cityData)
     /\ pricingHistory' = PushHistory(pricingHistory, rec)
     /\ appended' = Append(appended, rec)
     /\ IF pass.idx < Len(Cities)
        THEN /\ passes' = [passes EXCEPT ![p] =
                  [status |-> "waiting", idx |-> pass.idx + 1,
                   newData |-> newData, call |-> SpawnFor(pass.idx + 1, smp),
                   emitted |-> 0, lastCall |-> CallLog(outcome, pass.call)]]
             /\ lastSample' = SampleLog(p, pass.idx + 1, smp)
             /\ sockets' = sockets
        ELSE /\ passes' = [passes EXCEPT ![p] =
                  [status |-> "fulfilled", idx |-> pass.idx,
                   newData |-> newData, call |-> None,
                   emitted |-> pass.emitted + 1,
                   lastCall |-> CallLog(outcome, pass.call)]]
             /\ lastSample' = lastSample
             /\ sockets' = Emit(p, newData)
  /\ lastResponse' = None
  /\ UNCHANGED <<now, alive, booted, intervalDue, activeScenarios, timeouts,
                 posts, applied, lastFailure, hangs>>
  /\ UNCHANGED <<panel, hook>>

\* The scoring call of pass p rejects.  The catch branch reads fuelPrice,
\* trafficIndex and demandLevel, which are declared with let inside the try
\* block and are out of scope in the catch block: evaluating the fallback
\* throws a ReferenceError, nothing is written, the loop is left and the
\* promise of generateMockData rejects.  Nobody handles that rejection:
\* depending on the runtime's unhandled-rejection mode the process goes on
\* (a warning) or exits.
ScoringRejects(p, outcome, exits) ==
  /\ booted /\ alive
  /\ Waiting(p)
  /\ ~ScoringCall(outcome, passes[p].call).result.ok
  /\ passes' = [passes EXCEPT ![p].status = "rejected", ![p].call = None,
                               ![p].lastCall = CallLog(outcome, passes[p].call)]
  /\ lastFailure' = [lastFailure EXCEPT ![Cities[passes[p].idx]] =
       [pass |-> p, at |-> now, fuelPrice |-> passes[p].call.fuelPrice,
        trafficIndex |-> passes[p].call.trafficIndex,
        demandLevel |-> passes[p].call.demandLevel]]
  /\ alive' = ~exits
  /\ lastResponse' = None
  /\ UNCHANGED <<now, booted, intervalDue, currentPricingData,
                 pricingHistory, activeScenarios, timeouts, posts, sockets,
                 appended, applied, lastSample, hangs>>
  /\ UNCHANGED <<panel, hook>>

\* The scoring process of pass p never exits: neither 'close' nor 'error'
\* is ever emitted, and getPriceMultiplier has no timer of its own.
ProcessHangs(p) ==
  /\ booted /\ alive
  /\ Waiting(p)
  /\ hangs' = hangs + 1
  /\ passes' = [passes EXCEPT ![p].call.hung = TRUE]
  /\ lastResponse' = None
  /\ UNCHANGED <<now, alive, booted, intervalDue, currentPricingData,
                 pricingHistory, activeScenarios, timeouts, posts, sockets,
                 appended, applied, lastSample, lastFailure>>
  /\ UNCHANGED <<panel, hook>>

(***************************************************************************)
(* POST /api/scenario and the removal timer                                *)
(***************************************************************************)
\* Request bodies: "" stands for a missing field
RequestEventTypes == EventTypes \cup {"", "EARTHQUAKE"}
\* the first and the last city, a missing and an unknown one
RequestCities == {Cities[1], Cities[Len(Cities)], "", "Atlantis"}
ScenarioCities == RequestCities \cap CitySet

\* SCENARIO_EFFECTS is an object literal: SCENARIO_EFFECTS[eventType] also
\* finds the twelve properties it inherits from Object.prototype, all of
\* them truthy.
PrototypeKeys ==
  {"__defineGetter__", "__defineSetter__", "__lookupGetter__",
   "__lookupSetter__", "__proto__", "constructor", "hasOwnProperty",
   "isPrototypeOf", "propertyIsEnumerable", "toLocaleString", "toString",
   "valueOf"}
AnyEventTypes == RequestEventTypes \cup PrototypeKeys

\* Keys whose call SCENARIO_EFFECTS[eventType](city) throws a TypeError:
\* __proto__ is an object, not a function; __defineGetter__ and
\* __defineSetter__ want a function as their second argument.
ThrowingKeys == {"__proto__", "__defineGetter__", "__defineSetter__"}

\* Keys whose call returns undefined: the city has no accessor property.
UndefinedKeys == {"__lookupGetter__", "__lookupSetter__"}

\* SCENARIO_EFFECTS[eventType](city) for a key whose call returns:
\* a configured kind gives its effects; toString and toLocaleString give
\* the string "[object Object]", constructor gives Object(city), a String
\* object, valueOf gives SCENARIO_EFFECTS itself, hasOwnProperty,
\* isPrototypeOf and propertyIsEnumerable give false, __lookupGetter__ and
\* __lookupSetter__ give undefined (None).  None of these has any of the
\* properties the program reads.
EffectsOf(eventType, city) ==
  IF eventType \in DOMAIN SCENARIO_EFFECTS THEN SCENARIO_EFFECTS[eventType]
  ELSE IF eventType \in {"toString", "toLocaleString"}
  THEN [text |-> "[object Object]"]
  ELSE IF eventType = "constructor" THEN [text |-> city]
  ELSE IF eventType = "valueOf" THEN [object |-> "SCENARIO_EFFECTS"]
  ELSE IF eventType \in UndefinedKeys THEN None
  ELSE [boolean |-> FALSE]

\* The delay setTimeout uses: a delay that is not a number >= 1 becomes 1
TimeoutDelay(effects) ==
  IF "duration" \in DOMAIN effects THEN effects.duration ELSE 1

\* The unexpired override of city, if any, when a request arrives
Unexpired(city) ==
  /\ city \in DOMAIN activeScenarios
  /\ applied[city] # None
  /\ now < applied[city].at + applied[city].effects.duration

PostScenario(eventType, city) ==
  LET request == [eventType |-> eventType, city |-> city] IN
  /\ booted /\ alive
  /\ posts' = posts + 1
  /\ IF eventType = "" \/ city = ""
     THEN /\ lastResponse' =
               [status |-> 400, error |-> "eventType and city are required",
                request |-> request]
          /\ UNCHANGED <<activeScenarios, timeouts, applied, lastSample>>
     ELSE IF eventType \notin (DOMAIN SCENARIO_EFFECTS) \cup PrototypeKeys
     THEN /\ lastResponse' = [status |-> 400, error |-> "Invalid event type",
                              request |-> request]
          /\ UNCHANGED <<activeScenarios, timeouts, applied, lastSample>>
     ELSE IF city \notin CitySet
     THEN /\ lastResponse' = [status |-> 400, error |-> "Invalid city",
                              request |-> request]
          /\ UNCHANGED <<activeScenarios, timeouts, applied, lastSample>>
     ELSE IF eventType \in ThrowingKeys
     THEN \* the call throws inside the try block, before the registry is
          \* written
          /\ lastResponse' = [status |-> 500,
                              error |-> "Failed to apply scenario",
                              request |-> request]
          /\ UNCHANGED <<activeScenarios, timeouts, applied, lastSample>>
     ELSE IF eventType \in UndefinedKeys
     THEN \* activeScenarios.set(city, undefined) is done, then reading
          \* effects.duration throws: no timer is set
          /\ activeScenarios' = Put(activeScenarios, city, None)
          /\ lastResponse' = [status |-> 500,
                              error |-> "Failed to apply scenario",
                              request |-> request]
          /\ UNCHANGED <<timeouts, applied, lastSample>>
     ELSE LET effects == EffectsOf(eventType, city) IN
          /\ activeScenarios' = Put(activeScenarios, city, effects)
          /\ timeouts' = timeouts \cup
               {[id |-> posts + 1, city |-> city,
                 due |-> now + TimeoutDelay(effects)]}
          /\ IF eventType \in DOMAIN SCENARIO_EFFECTS
             THEN /\ applied' = [applied EXCEPT ![city] =
                       [id |-> posts + 1, eventType |-> eventType,
                        effects |-> effects, at |-> now,
                        replaced |-> IF Unexpired(city)
                                     THEN applied[city].eventType ELSE ""]]
                  /\ lastSample' = [lastSample EXCEPT ![city] = None]
             ELSE UNCHANGED <<applied, lastSample>>
          /\ lastResponse' =
               IF "duration" \in DOMAIN effects
               THEN [status |-> 200, success |-> TRUE, effects |-> effects,
                     duration |-> effects.duration, request |-> request]
               ELSE [status |-> 200, success |-> TRUE, effects |-> effects,
                     request |-> request]
  /\ UNCHANGED <<now, alive, booted, intervalDue, passes, currentPricingData,
                 pricingHistory, sockets, appended, lastFailure, hangs>>
  /\ UNCHANGED hook

\* The removal callback clears the whole registry instead of one city.
ScenarioTimeoutClearsAll(t) ==
  /\ booted /\ alive
  /\ t \in timeouts
  /\ t.due <= now
  /\ activeScenarios' = <<>>
  /\ timeouts' = timeouts \ {t}
  /\ lastResponse' = None
  /\ UNCHANGED <<now, alive, booted, intervalDue, passes, currentPricingData,
                 pricingHistory, posts, sockets, appended, applied,
                 lastSample, lastFailure, hangs>>
  /\ UNCHANGED <<panel, hook>>

\* The callback of setTimeout(..., effects.duration): it deletes whatever
\* override the city has now.
ScenarioTimeout(t) ==
  /\ booted /\ alive
  /\ t \in timeouts
  /\ t.due <= now
  /\ activeScenarios' = Delete(activeScenarios, t.city)
  /\ timeouts' = timeouts \ {t}
  /\ lastResponse' = None
  /\ UNCHANGED <<now, alive, booted, intervalDue, passes, currentPricingData,
                 pricingHistory, posts, sockets, appended, applied,
                 lastSample, lastFailure, hangs>>
  /\ UNCHANGED <<panel, hook>>

(***************************************************************************)
(* socket.io clients and GET /api/pricing/history                          *)
(***************************************************************************)
\* io.on('connection'): the new client is sent currentPricingData as it is
Connect(s) ==
  /\ booted /\ alive
  /\ ~sockets[s].connected
  /\ sockets' = [sockets EXCEPT ![s] =
       [connected |-> TRUE,
        inbox |-> [data |-> currentPricingData, pass |-> 0]]]
  /\ lastResponse' = None
  /\ UNCHANGED <<now, alive, booted, intervalDue, passes, currentPricingData,
                 pricingHistory, activeScenarios, timeouts, posts, appended,
                 applied, lastSample, lastFailure, hangs>>
  /\ UNCHANGED panel

Disconnect(s) ==
  /\ booted /\ alive
  /\ sockets[s].connected
  /\ sockets' = [sockets EXCEPT ![s] = NewSocket]
  /\ lastResponse' = None
  /\ UNCHANGED <<now, alive, booted, intervalDue, passes, currentPricingData,
                 pricingHistory, activeScenarios, timeouts, posts, appended,
                 applied, lastSample, lastFailure, hangs>>
  /\ UNCHANGED panel

GetHistory ==
  /\ booted /\ alive
  /\ lastResponse' = [status |-> 200, history |-> pricingHistory]
  /\ UNCHANGED <<now, alive, booted, intervalDue, passes, currentPricingData,
                 pricingHistory, activeScenarios, timeouts, posts, sockets,
                 appended, applied, lastSample, lastFailure, hangs>>
  /\ UNCHANGED <<panel, hook>>

\* GET /api/pricing: the server registers no such route (its routes are
\* GET /api/pricing/history, POST /api/scenario and GET /health), so express
\* answers 404 "Cannot GET /api/pricing".
GetPricing ==
  /\ booted /\ alive
  /\ lastResponse' = [status |-> 404, path |-> "/api/pricing"]
  /\ UNCHANGED <<now, alive, booted, intervalDue, passes, currentPricingData,
                 pricingHistory, activeScenarios, timeouts, posts, sockets,
                 appended, applied, lastSample, lastFailure, hangs>>
  /\ UNCHANGED <<panel, hook>>

(***************************************************************************)
(* The dashboard's views of a fetched history                              *)
(***************************************************************************)
CHART_WINDOW == 300000
MODAL_ROWS == 30

\* Array.prototype.reverse
Reverse(seq) == [i \in 1..Len(seq) |-> seq[Len(seq) - i + 1]]

\* new Date(timestamp).toLocaleTimeString(): the time of day, in seconds
LocaleTime(timestamp) == (timestamp \div 1000) % 86400

ChartPoint(item) ==
  [time |-> LocaleTime(item.timestamp),
   price_multiplier |-> item.price_multiplier,
   fuel_price |-> item.fuel_price,
   traffic_index |-> item.traffic_index,
   demand_level |-> item.demand_level]

\* PricingChart.fetchHistoricalData at time at: the records of the city
\* newer than five minutes, mapped to chart points, then reversed
ChartData(data, city, at) ==
  LET ofCity == SelectSeq(data, LAMBDA item : item.city = city)
      recent == SelectSeq(ofCity,
                          LAMBDA item : item.timestamp > at - CHART_WINDOW)
  IN Reverse([i \in 1..Len(recent) |-> ChartPoint(recent[i])])

\* The rows of the modal left in the order of the history.
ModalRowsOldestFirst(data, city) ==
  LET ofCity == SelectSeq(data, LAMBDA item : item.city = city) IN
  IF Len(ofCity) > MODAL_ROWS
  THEN SubSeq(ofCity, Len(ofCity) - MODAL_ROWS + 1, Len(ofCity))
  ELSE ofCity

\* CityDetailModal.fetchHistoricalData: filter, slice(-30), reverse
ModalRows(data, city) ==
  LET ofCity == SelectSeq(data, LAMBDA item : item.city = city)
      last30 == IF Len(ofCity) > MODAL_ROWS
                THEN SubSeq(ofCity, Len(ofCity) - MODAL_ROWS + 1, Len(ofCity))
                ELSE ofCity
  IN Reverse(last30)

(***************************************************************************)
(* The scenario control panel (ScenarioControls)                           *)
(***************************************************************************)
\* `${eventType}-${city}`
ScenarioKey(eventType, city) == <<eventType, city>>

\* panel.active is the component's map of active scenarios, panel.loading
\* its loading state (the key of the last click, NoKey for null),
\* panel.timers its pending removal timers, panel.requests the requests
\* sent and not yet handled by the server, panel.responses the responses on
\* their way back, panel.sent the number of clicks.
NoKey == <<>>

isScenarioActive(eventType, city) ==
  ScenarioKey(eventType, city) \in DOMAIN panel.active

\* disabled={isLoading || isActive} of the button of (eventType, city)
ButtonDisabled(eventType, city) ==
  \/ panel.loading = ScenarioKey(eventType, city)
  \/ isScenarioActive(eventType, city)

\* A click on a button that is not disabled: triggerScenario up to its
\* first await.  setLoading takes the key, the POST is sent (to a server
\* that is up).
triggerScenario(eventType, city) ==
  /\ booted /\ alive
  /\ ~ButtonDisabled(eventType, city)
  /\ panel' = [panel EXCEPT
       !.loading = ScenarioKey(eventType, city),
       !.sent = panel.sent + 1,
       !.requests = panel.requests \cup
          {[id |-> panel.sent + 1, eventType |-> eventType, city |-> city]}]
  /\ lastResponse' = None
  /\ UNCHANGED <<now, alive, booted, intervalDue, passes, currentPricingData,
                 pricingHistory, activeScenarios, timeouts, posts, sockets,
                 appended, applied, lastSample, lastFailure, hangs, hook>>

\* The server handles a request of the panel; its response is on the way.
PanelRequestHandled(req) ==
  /\ req \in panel.requests
  /\ PostScenario(req.eventType, req.city)
  /\ panel' = [panel EXCEPT
       !.requests = panel.requests \ {req},
       !.responses = panel.responses \cup
          {[id |-> req.id, eventType |-> req.eventType, city |-> req.city,
            ok |-> lastResponse'.status = 200,
            duration |-> IF "duration" \in DOMAIN lastResponse'
                         THEN lastResponse'.duration ELSE 0,
            late |-> FALSE]}]

\* triggerScenario after its awaits: on an ok response the scenario is put
\* in the panel's map under its key, with endTime counted from now, and a
\* timer is set to remove that key after the duration the server answered.
\* A response that is not ok throws into the catch branch: the map is left
\* alone.  In both cases finally sets loading to null, whichever click set
\* it.
PanelResponse(resp) ==
  /\ resp \in panel.responses
  /\ IF resp.ok
     THEN LET scenarioKey == ScenarioKey(resp.eventType, resp.city) IN
          panel' = [panel EXCEPT
            !.active = Put(panel.active, scenarioKey,
                           [eventType |-> resp.eventType, city |-> resp.city,
                            endTime |-> now + resp.duration]),
            !.timers = panel.timers \cup
                         {[id |-> resp.id, key |-> scenarioKey,
                           due |-> now + resp.duration]},
            !.loading = NoKey,
            !.responses = panel.responses \ {resp}]
     ELSE panel' = [panel EXCEPT !.loading = NoKey,
                                 !.responses = panel.responses \ {resp}]
  /\ lastResponse' = None
  /\ UNCHANGED <<now, alive, booted, intervalDue, passes, currentPricingData,
                 pricingHistory, activeScenarios, timeouts, posts, sockets,
                 appended, applied, lastSample, lastFailure, hangs, hook>>

\* The callback of the panel's setTimeout: it deletes the key
PanelTimeout(t) ==
  /\ t \in panel.timers
  /\ t.due <= now
  /\ panel' = [panel EXCEPT !.active = Delete(panel.active, t.key),
                            !.timers = panel.timers \ {t}]
  /\ lastResponse' = None
  /\ UNCHANGED <<now, alive, booted, intervalDue, passes, currentPricingData,
                 pricingHistory, activeScenarios, timeouts, posts, sockets,
                 appended, applied, lastSample, lastFailure, hangs, hook>>

(***************************************************************************)
(* The client hook (usePricingData)                                        *)
(***************************************************************************)
RECONNECT_DELAY == 3000

\* hook.socket, hook.isConnected and hook.isLoading are the hook's state
\* (socket as "is set"); hook.timer is the due time of the pending reconnect
\* timer, 0 for none; hook.deps are the values of [isConnected, socket] the
\* reconnection effect last ran with; hook.connecting: a connection attempt
\* of the socket is in flight; hook.accepted: the server has accepted that
\* attempt, as its socket hook.sid; hook.connects: the socket.connect()
\* calls of the reconnection effect.
\*
\* The socket is created with the reconnection options of socket.io-client
\* left at their defaults: the library reconnects by itself after a failed
\* attempt and after a connection is lost.  hook.retryAt is the due time of
\* the library's pending reconnection timer, 0 for none; hook.attempts the
\* attempts counted by its backoff since the last connection.
RECONNECTION_DELAY == 1000
RECONNECTION_DELAY_MAX == 5000

\* The values of Math.random() explored for the jitter, in tenths
Rands == {0, 5, 8}

\* The delay before the library's next attempt: reconnectionDelay doubled
\* with every attempt, moved down (even tenth of rand) or up (odd) by
\* rand * randomizationFactor (0.5) of itself, at most reconnectionDelayMax.
\* From the fifth attempt on every delay is the maximum.
BackoffDuration(attempts, rand) ==
  LET ms == RECONNECTION_DELAY * Pow2(Min({attempts, 4}))
      deviation == (rand * ms) \div 20
      jittered == IF rand % 2 = 0 THEN ms - deviation ELSE ms + deviation
  IN  Min({jittered, RECONNECTION_DELAY_MAX})

\* The library schedules its next attempt.
ScheduleReconnect(h, rand) ==
  [h EXCEPT !.retryAt = now + BackoffDuration(h.attempts, rand),
            !.attempts = Min({h.attempts + 1, 4})]

\* The first effect: io(SOCKET_URL) creates the socket, which starts to
\* connect, and setSocket stores it.  The reconnection effect has run with
\* isConnected false and no socket, and set no timer.
HookMount ==
  /\ ~hook.socket
  /\ hook' = [hook EXCEPT !.socket = TRUE, !.connecting = TRUE]
  /\ lastResponse' = None
  /\ UNCHANGED <<now, alive, booted, intervalDue, passes, currentPricingData,
                 pricingHistory, activeScenarios, timeouts, posts, sockets,
                 appended, applied, lastSample, lastFailure, hangs, panel>>

\* The reconnection effect after a render in which isConnected or socket
\* has changed: the cleanup of its last run clears the timer, then a new
\* timer is set if the hook is not connected and has a socket.
HookEffect ==
  /\ hook.deps # <<hook.isConnected, hook.socket>>
  /\ hook' = [hook EXCEPT
       !.deps = <<hook.isConnected, hook.socket>>,
       !.timer = IF ~hook.isConnected /\ hook.socket
                 THEN now + RECONNECT_DELAY ELSE 0]
  /\ lastResponse' = None
  /\ UNCHANGED <<now, alive, booted, intervalDue, passes, currentPricingData,
                 pricingHistory, activeScenarios, timeouts, posts, sockets,
                 appended, applied, lastSample, lastFailure, hangs, panel>>

\* The server's side of the hook's connection attempt: io.on('connection')
HookAccepted(s) ==
  /\ hook.connecting /\ ~hook.accepted
  /\ Connect(s)
  /\ hook' = [hook EXCEPT !.accepted = TRUE, !.sid = s]

\* 'connect': setIsConnected(true), setIsLoading(false); the library's
\* backoff starts over.
HookConnected ==
  /\ hook.connecting /\ hook.accepted
  /\ hook' = [hook EXCEPT !.isConnected = TRUE, !.isLoading = FALSE,
                          !.connecting = FALSE, !.accepted = FALSE,
                          !.attempts = 0]
  /\ lastResponse' = None
  /\ UNCHANGED <<now, alive, booted, intervalDue, passes, currentPricingData,
                 pricingHistory, activeScenarios, timeouts, posts, sockets,
                 appended, applied, lastSample, lastFailure, hangs, panel>>

\* 'connect_error': setError and setIsLoading only; isConnected and socket
\* do not change, so the reconnection effect does not run again.  The
\* library schedules its next attempt.
HookConnectError(rand) ==
  /\ hook.connecting /\ ~hook.accepted
  /\ hook' = ScheduleReconnect(
               [hook EXCEPT !.connecting = FALSE, !.isLoading = FALSE], rand)
  /\ lastResponse' = None
  /\ UNCHANGED <<now, alive, booted, intervalDue, passes, currentPricingData,
                 pricingHistory, activeScenarios, timeouts, posts, sockets,
                 appended, applied, lastSample, lastFailure, hangs, panel>>

\* 'disconnect': setIsConnected(false).  Neither side has asked for the
\* disconnection (the server never disconnects a socket, the hook closes
\* its socket at unmount only), so the library schedules an attempt.
HookDisconnected(rand) ==
  /\ hook.isConnected
  /\ hook' = ScheduleReconnect([hook EXCEPT !.isConnected = FALSE], rand)
  /\ lastResponse' = None
  /\ UNCHANGED <<now, alive, booted, intervalDue, passes, currentPricingData,
                 pricingHistory, activeScenarios, timeouts, posts, sockets,
                 appended, applied, lastSample, lastFailure, hangs, panel>>

\* The server's side of the loss of the hook's connection
HookServerDrops ==
  /\ hook.sid # 0
  /\ Disconnect(hook.sid)
  /\ hook' = hook

\* The library's reconnection timer fires: it opens a connection.
ManagerReconnect ==
  /\ hook.retryAt # 0
  /\ hook.retryAt <= now
  /\ hook' = [hook EXCEPT !.retryAt = 0, !.connecting = TRUE]
  /\ lastResponse' = None
  /\ UNCHANGED <<now, alive, booted, intervalDue, passes, currentPricingData,
                 pricingHistory, activeScenarios, timeouts, posts, sockets,
                 appended, applied, lastSample, lastFailure, hangs, panel>>

\* socket.connect(): nothing on a socket that is connected or connecting,
\* or whose library is waiting to reconnect
SocketConnect(h) ==
  IF h.isConnected \/ h.connecting \/ h.retryAt # 0 THEN h
  ELSE [h EXCEPT !.connecting = TRUE]

\* The reconnect timer fires: socket.connect()
HookReconnectTimer ==
  /\ hook.timer # 0
  /\ hook.timer <= now
  /\ hook' = [SocketConnect(hook) EXCEPT !.timer = 0,
                                         !.connects = hook.connects + 1]
  /\ lastResponse' = None
  /\ UNCHANGED <<now, alive, booted, intervalDue, passes, currentPricingData,
                 pricingHistory, activeScenarios, timeouts, posts, sockets,
                 appended, applied, lastSample, lastFailure, hangs, panel>>

\* reconnect, bound to the "Reconnect Now" button App shows while the hook
\* is neither connected nor loading: socket.connect(), no timer involved
reconnect ==
  /\ hook.socket /\ ~hook.isConnected /\ ~hook.isLoading
  /\ hook' = SocketConnect(hook)
  /\ lastResponse' = None
  /\ UNCHANGED <<now, alive, booted, intervalDue, passes, currentPricingData,
                 pricingHistory, activeScenarios, timeouts, posts, sockets,
                 appended, applied, lastSample, lastFailure, hangs, panel>>

(***************************************************************************)
(* The clock                                                               *)
(***************************************************************************)
DueTimes ==
  {intervalDue} \cup {t.due : t \in timeouts}
    \cup {t.due : t \in panel.timers}
    \cup (IF hook.timer # 0 THEN {hook.timer} ELSE {})
    \cup (IF hook.retryAt # 0 THEN {hook.retryAt} ELSE {})

\* Nothing is due now: the clock moves to the next due time.
AdvanceTime ==
  /\ booted /\ alive
  /\ \A d \in DueTimes : d > now
  /\ now' = Min(DueTimes)
  /\ lastResponse' = None
  /\ UNCHANGED <<alive, booted, intervalDue, passes, currentPricingData,
                 pricingHistory, activeScenarios, timeouts, posts, sockets,
                 appended, applied, lastSample, lastFailure, hangs>>
  /\ UNCHANGED <<panel, hook>>

\* Time passes while a response travels and is parsed (the two awaits of
\* triggerScenario); no timer comes due in between.
ResponseTravels(resp) ==
  /\ booted /\ alive
  /\ resp \in panel.responses
  /\ ~resp.late
  /\ \A d \in DueTimes : d > now + ResponseDelay
  /\ now' = now + ResponseDelay
  /\ panel' = [panel EXCEPT !.responses =
       (panel.responses \ {resp}) \cup {[resp EXCEPT !.late = TRUE]}]
  /\ lastResponse' = None
  /\ UNCHANGED <<alive, booted, intervalDue, passes, currentPricingData,
                 pricingHistory, activeScenarios, timeouts, posts, sockets,
                 appended, applied, lastSample, lastFailure, hangs, hook>>

\* The draws explored for the next city of pass p: with more than one draw
\* to choose from, one that differs from the draw of the city before it.
\* The first city of a pass takes any draw.
FollowingDraws(p, draws) ==
  IF Cardinality(draws) = 1 \/ passes[p].call = None THEN draws
  ELSE draws \ {passes[p].call.drawn}

(***************************************************************************)
(* Specifications                                                          *)
(***************************************************************************)
\* The tick engine and the broadcast: passes that succeed, fail, hang and
\* overlap, and clients that come and go.
Next ==
  \/ \E smp \in Samples : Startup(smp)
  \/ \E smp \in Samples : IntervalFires(smp)
  \/ \E p \in DOMAIN passes, o \in TickOutcomes :
       \E smp \in FollowingDraws(p, Samples) : ScoringResolves(p, o, smp)
  \/ \E p \in DOMAIN passes, o \in TickOutcomes, x \in BOOLEAN :
       ScoringRejects(p, o, x)
  \/ \E p \in DOMAIN passes : hangs < MaxHangs /\ ProcessHangs(p)
  \/ \E s \in DOMAIN sockets : Connect(s) /\ UNCHANGED hook
  \/ \E s \in DOMAIN sockets : Disconnect(s) /\ UNCHANGED hook
  \/ Min(DueTimes) <= MaxTicks * TICK_INTERVAL /\ AdvanceTime

Spec == Init /\ [][Next]_vars

\* No pass is waiting for a scoring process that is still going to exit.
NoPassWaiting == \A p \in DOMAIN passes : ~Waiting(p)

\* The moments at which scenario requests are explored: in the first
\* intervals, between two passes and while a pass waits for the scoring of
\* its first city, that is before and after the first city is sampled and
\* after the last one is.
PassesAtRest == \A p \in DOMAIN passes : Waiting(p) => passes[p].idx = 1

RequestMoment == now <= MaxRequestTicks * TICK_INTERVAL /\ PassesAtRest

\* The scenario registry over a whole scenario duration: scoring succeeds
\* and returns before the next interval, the draws are fixed, the requests
\* are for the first and the last city.
NextScenario ==
  \/ \E smp \in SteadySamples : Startup(smp)
  \/ \E smp \in SteadySamples : IntervalFires(smp)
  \/ \E p \in DOMAIN passes, smp \in SteadySamples :
       ScoringResolves(p, "ok", smp)
  \/ \E e \in EventTypes, c \in ScenarioCities :
       /\ posts < MaxPosts /\ RequestMoment
       /\ PostScenario(e, c) /\ UNCHANGED panel
  \/ \E t \in timeouts : ScenarioTimeout(t)
  \/ /\ Min(DueTimes) <= MaxScenarioTicks * TICK_INTERVAL
     /\ NoPassWaiting
     /\ AdvanceTime

SpecScenario == Init /\ [][NextScenario]_vars

\* The scenario endpoint with any request body, over one tick interval.
NextRequests ==
  \/ \E smp \in SteadySamples : Startup(smp)
  \/ \E smp \in SteadySamples : IntervalFires(smp)
  \/ \E p \in DOMAIN passes, smp \in SteadySamples :
       ScoringResolves(p, "ok", smp)
  \/ \E e \in AnyEventTypes, c \in RequestCities :
       posts < MaxPosts /\ PostScenario(e, c) /\ UNCHANGED panel
  \/ GetPricing
  \/ \E t \in timeouts : ScenarioTimeout(t)
  \/ /\ Min(DueTimes) <= MaxTicks * TICK_INTERVAL
     /\ NoPassWaiting
     /\ AdvanceTime

\* The scoring calls of the initial pass with every behaviour of the child
\* process.
NextScoring ==
  \/ \E smp \in Samples : Startup(smp)
  \/ \E p \in DOMAIN passes, o \in ProcOutcomes :
       \E smp \in FollowingDraws(p, Samples) : ScoringResolves(p, o, smp)
  \/ \E p \in DOMAIN passes, o \in ProcOutcomes, x \in BOOLEAN :
       ScoringRejects(p, o, x)

SpecScoring == Init /\ [][NextScoring]_vars

SpecRequests == Init /\ [][NextRequests]_vars

\* Scenarios triggered from the control panel, over a whole scenario
\* duration.  The panel is used between two passes; a request and its
\* response are delivered before the next timer is due; a response can take
\* ResponseDelay.
NextPanel ==
  \/ \E smp \in SteadySamples : Startup(smp)
  \/ \E smp \in SteadySamples : IntervalFires(smp)
  \/ \E p \in DOMAIN passes, smp \in SteadySamples :
       ScoringResolves(p, "ok", smp)
  \/ \E e \in EventTypes, c \in ScenarioCities :
       /\ panel.sent < MaxPosts /\ RequestMoment /\ NoPassWaiting
       /\ triggerScenario(e, c)
  \/ \E req \in panel.requests : NoPassWaiting /\ PanelRequestHandled(req)
  \/ \E resp \in panel.responses : NoPassWaiting /\ ResponseTravels(resp)
  \/ \E resp \in panel.responses : NoPassWaiting /\ PanelResponse(resp)
  \/ \E t \in timeouts : ScenarioTimeout(t)
  \/ \E t \in panel.timers : PanelTimeout(t)
  \/ /\ Min(DueTimes) <= MaxScenarioTicks * TICK_INTERVAL
     /\ NoPassWaiting
     /\ panel.requests = {} /\ panel.responses = {}
     /\ AdvanceTime

SpecPanel == Init /\ [][NextPanel]_vars

\* A dashboard client that connects, loses its connection, fails to connect
\* and whose user clicks "Reconnect Now", with the reconnection of its
\* socket library, next to the tick engine.  The client's events are
\* explored between two passes; its timers fire whenever they are due.
NextHook ==
  \/ \E smp \in SteadySamples : Startup(smp)
  \/ \E smp \in SteadySamples : IntervalFires(smp)
  \/ \E p \in DOMAIN passes, smp \in SteadySamples :
       ScoringResolves(p, "ok", smp)
  \/ NoPassWaiting /\ HookMount
  \/ NoPassWaiting /\ HookEffect
  \/ \E s \in DOMAIN sockets : NoPassWaiting /\ HookAccepted(s)
  \/ NoPassWaiting /\ HookConnected
  \/ \E rand \in Rands : NoPassWaiting /\ HookConnectError(rand)
  \/ \E rand \in Rands : NoPassWaiting /\ HookDisconnected(rand)
  \/ NoPassWaiting /\ HookServerDrops
  \/ ManagerReconnect
  \/ HookReconnectTimer
  \/ NoPassWaiting /\ reconnect
  \/ Min(DueTimes) <= MaxTicks * TICK_INTERVAL /\ AdvanceTime

SpecHook == Init /\ [][NextHook]_vars

\* Sampling at the edges of the ranges, with and without a scenario, over
\* one tick interval (no removal timer comes due that early).
NextSampling ==
  \/ \E smp \in EdgeSamples : Startup(smp)
  \/ \E smp \in EdgeSamples : IntervalFires(smp)
  \/ \E p \in DOMAIN passes :
       \E smp \in FollowingDraws(p, EdgeSamples) :
         ScoringResolves(p, "ok", smp)
  \/ \E e \in EventTypes, c \in ScenarioCities :
       posts < MaxPosts /\ PostScenario(e, c) /\ UNCHANGED panel
  \/ /\ Min(DueTimes) <= MaxTicks * TICK_INTERVAL
     /\ NoPassWaiting
     /\ AdvanceTime

SpecSampling == Init /\ [][NextSampling]_vars

\* The history buffer over enough passes to overflow it: scoring succeeds and
\* returns before the next interval.
NextHistory ==
  \/ \E smp \in SteadySamples : Startup(smp)
  \/ \E smp \in SteadySamples : IntervalFires(smp)
  \/ \E p \in DOMAIN passes, smp \in SteadySamples :
       ScoringResolves(p, "ok", smp)
  \/ GetHistory
  \/ /\ Min(DueTimes) <= MaxHistoryTicks * TICK_INTERVAL
     /\ NoPassWaiting
     /\ AdvanceTime

SpecHistory == Init /\ [][NextHistory]_vars

\* The scoring process of city number i has stopped exiting: a pass is
\* stuck at that city.
Stalled(i) ==
  \E q \in DOMAIN passes :
    passes[q].status = "waiting" /\ passes[q].call.hung /\ passes[q].idx = i

\* The history when scoring stops exiting for one city, from some pass on:
\* every later pass gets as far as that city and waits there for ever.
NextStalled ==
  \/ \E smp \in SteadySamples : Startup(smp)
  \/ \E smp \in SteadySamples : IntervalFires(smp)
  \/ \E p \in DOMAIN passes, smp \in SteadySamples :
       /\ Waiting(p) /\ ~Stalled(passes[p].idx)
       /\ ScoringResolves(p, "ok", smp)
  \/ \E p \in DOMAIN passes :
       /\ Waiting(p) /\ (hangs = 0 \/ Stalled(passes[p].idx))
       /\ ProcessHangs(p)
  \/ GetHistory
  \/ /\ Min(DueTimes) <= MaxStalledTicks * TICK_INTERVAL
     /\ NoPassWaiting
     /\ AdvanceTime

SpecStalled == Init /\ [][NextStalled]_vars

\* The tick engine with the scheduling the runtime guarantees: a callback
\* that can run does run, the clock goes on, a process that has not hung
\* exits.
SpecLive == Init /\ [][Next]_vars /\ WF_vars(Next)

(***************************************************************************)
(* Properties                                                              *)
(***************************************************************************)
PassIds == 1..(MaxTicks + 1)

\* C1: a tick pass never aborts because a scoring call failed: its promise
\* does not reject, and a pass that has ended has written and published a
\* state for every configured city.
C1_TickSurvivesScoringFailure ==
  \A p \in DOMAIN passes :
    /\ passes[p].status # "rejected"
    /\ passes[p].status = "fulfilled" => DOMAIN passes[p].newData = CitySet

\* C2: when the scoring call for a city fails, the record appended to the
\* history and staged for publication for that city in that pass carries the
\* fallback multiplier 1.0 + (fuel-1.5)*0.2 + (traffic-5.5)*0.05 +
\* (demand-5.5)*0.08 of the values sampled for it, and the fallback message.
C2_FallbackStored ==
  \A c \in CitySet :
    lastFailure[c] # None =>
      LET f == lastFailure[c]
          expected == ToFixed3(FallbackMultiplier(f.fuelPrice, f.trafficIndex,
                                                  f.demandLevel))
          IsFallback(r) ==
            /\ r.pass = f.pass
            /\ r.fuel_price = ToFixed2(f.fuelPrice)
            /\ r.traffic_index = f.trafficIndex
            /\ r.demand_level = f.demandLevel
            /\ r.price_multiplier = expected
            /\ r.explanation = FallbackExplanation
      IN /\ \E i \in DOMAIN pricingHistory :
              pricingHistory[i].city = c /\ IsFallback(pricingHistory[i])
         /\ c \in DOMAIN passes[f.pass].newData
         /\ IsFallback(passes[f.pass].newData[c])

\* The fields an effects object forces
EffectFields(effects) == (DOMAIN effects) \ {"duration"}

InWindow(c) ==
  /\ applied[c] # None
  /\ lastSample[c] # None
  /\ lastSample[c].at < applied[c].at + applied[c].effects.duration

\* C3: every sampling of a city after a scenario was applied to it, and
\* before that scenario's duration has elapsed, uses that scenario's
\* override (no other scenario having been applied to the city since), also
\* when the scenario replaced an unexpired one.
C3_OverrideHoldsForItsDuration ==
  \A c \in CitySet :
    InWindow(c) => lastSample[c].scenario = applied[c].effects

\* C4: no sampling of a city at or after the time at which the duration of
\* its last applied scenario has elapsed uses an override.
C4_NoUseAfterExpiry ==
  \A c \in CitySet :
    (/\ applied[c] # None
     /\ lastSample[c] # None
     /\ lastSample[c].at >= applied[c].at + applied[c].effects.duration)
    => lastSample[c].scenario = None

ForcedFields(sample) ==
  IF sample.scenario = None THEN {}
  ELSE {f \in {"fuel_price", "traffic_index", "demand_level"} :
          Truthy(sample.scenario, f)}

\* C5: after scenario B replaced the unexpired scenario A of a city, every
\* sampling of that city during B's duration forces exactly the fields of B
\* with B's values; the fields only A forced are drawn again.
C5_ReplacementForcesExactlyB ==
  \A c \in CitySet :
    (InWindow(c) /\ applied[c].replaced # "") =>
      LET b == applied[c].effects
          smp == lastSample[c] IN
      /\ ForcedFields(smp) = EffectFields(b)
      /\ "fuel_price" \in DOMAIN b => smp.used.fuelPrice = b.fuel_price
      /\ "traffic_index" \in DOMAIN b => smp.used.trafficIndex = b.traffic_index
      /\ "demand_level" \in DOMAIN b => smp.used.demandLevel = b.demand_level
      /\ "fuel_price" \notin DOMAIN b => smp.used.fuelPrice = smp.drawn.fuelPrice
      /\ "traffic_index" \notin DOMAIN b =>
           smp.used.trafficIndex = smp.drawn.trafficIndex
      /\ "demand_level" \notin DOMAIN b =>
           smp.used.demandLevel = smp.drawn.demandLevel

\* The snapshot a client was sent when it connected, while it is the last
\* message sent to it
Greeting(s) ==
  sockets[s].connected /\ sockets[s].inbox # None /\ sockets[s].inbox.pass = 0

\* C6: the snapshot sent to a newly connected client never mixes two ticks:
\* all states in it were written by the same pass.
C6_SnapshotFromOneTick ==
  \A s \in DOMAIN sockets :
    Greeting(s) =>
      \A c1, c2 \in DOMAIN sockets[s].inbox.data :
        sockets[s].inbox.data[c1].pass = sockets[s].inbox.data[c2].pass

\* C7: a client is sent a snapshot as soon as it is connected, and that
\* snapshot holds a state for every configured city.
C7_GreetingComplete ==
  \A s \in DOMAIN sockets :
    sockets[s].connected =>
      /\ sockets[s].inbox # None
      /\ Greeting(s) => DOMAIN sockets[s].inbox.data = CitySet

TickMessage(sock) == sock.connected /\ sock.inbox # None /\ sock.inbox.pass > 0

\* C8: the tick snapshots a client receives arrive in tick order (never the
\* snapshot of a pass after that of a pass started later), and per city the
\* timestamps of successive snapshots never decrease.
C8_TickOrder ==
  [][\A s \in DOMAIN sockets :
       (TickMessage(sockets[s]) /\ TickMessage(sockets'[s])) =>
         /\ sockets'[s].inbox.pass >= sockets[s].inbox.pass
         /\ \A c \in (DOMAIN sockets[s].inbox.data)
                       \cap (DOMAIN sockets'[s].inbox.data) :
              sockets'[s].inbox.data[c].timestamp
                >= sockets[s].inbox.data[c].timestamp]_vars

HungCall(p) ==
  /\ alive
  /\ p \in DOMAIN passes
  /\ passes[p].status = "waiting"
  /\ passes[p].call.hung

\* C9: a scoring call that never returns is cut off by a timeout, so the
\* pass that made it does not wait for it for ever (it goes on to the next
\* city and publishes).
C9_HungCallIsCutOff ==
  \A p \in PassIds : HungCall(p) ~> ~HungCall(p)

\* history.slice(-n)
LastN(seq, n) ==
  IF Len(seq) > n THEN SubSeq(seq, Len(seq) - n + 1, Len(seq)) ELSE seq

IsHistoryResponse == "history" \in DOMAIN lastResponse

\* C10: the history holds at most 100 records, exactly the most recently
\* pushed ones in push order, oldest first, and GET /api/pricing/history
\* answers with them in that order.
C10_HistoryIsLatest ==
  /\ Len(pricingHistory) <= HISTORY_LIMIT
  /\ pricingHistory = LastN(appended, HISTORY_LIMIT)
  /\ IsHistoryResponse => lastResponse.history = LastN(appended, HISTORY_LIMIT)

\* The history has overflowed, a pass is half way, and it was just fetched.
C10_Witness ==
  /\ Len(appended) > HISTORY_LIMIT + 1
  /\ IsHistoryResponse
  /\ appended[Len(appended)].city = Cities[1]

\* data.filter(item => item.city === city) of the chart's history fetch
CityRecords(seq, city) == SelectSeq(seq, LAMBDA r : r.city = city)

\* C11: once more than 100 ticks have each appended one record of a city,
\* the history filtered to that city (in the store and as fetched) holds
\* exactly 100 records of that city, those of its 100 most recent ticks.
C11_PerCityHistoryIsFull ==
  \A c \in CitySet :
    Len(CityRecords(appended, c)) > HISTORY_LIMIT =>
      /\ CityRecords(pricingHistory, c)
           = LastN(CityRecords(appended, c), HISTORY_LIMIT)
      /\ IsHistoryResponse =>
           CityRecords(lastResponse.history, c)
             = LastN(CityRecords(appended, c), HISTORY_LIMIT)

\* The four configured kinds of scenario
ConfiguredKinds == {"DEMAND_SURGE", "FUEL_SPIKE", "TRAFFIC_JAM", "GLOBAL_CRISIS"}

InvalidRequest(request) ==
  \/ request.eventType = ""
  \/ request.city = ""
  \/ request.eventType \notin ConfiguredKinds
  \/ request.city \notin CitySet

\* C12: a scenario request without eventType or city, with an eventType that
\* is not one of the four configured kinds, or with a city that is not
\* configured, is answered with a validation error (status 400), leaves the
\* override registry unchanged and schedules no removal timer.
C12_InvalidRequestRejected ==
  [][(posts' = posts + 1 /\ InvalidRequest(lastResponse'.request)) =>
       /\ lastResponse'.status = 400
       /\ activeScenarios' = activeScenarios
       /\ timeouts' = timeouts]_vars

\* The sampled fuel prices (thousandths) that toFixed(2) turns into hundredths
FuelDraws(hundredths) ==
  {f \in (10 * hundredths - 5)..(10 * hundredths + 5) :
     /\ f \in SampleFuel(0)..SampleFuel(999)
          \/ f = SCENARIO_EFFECTS.FUEL_SPIKE.fuel_price
     /\ ToFixed2(f) = hundredths}

\* The multiplier and the explanation of a record are those of scoring, or of
\* the fallback, for the three values the record itself holds.
Consistent(r) ==
  \E f \in FuelDraws(r.fuel_price) :
    \/ /\ r.price_multiplier
           = ToFixed3(Predict(f, r.traffic_index, r.demand_level))
       /\ r.explanation \in {Explain(f, r.traffic_index, r.demand_level),
                              DefaultExplanation}
    \/ /\ r.price_multiplier
           = ToFixed3(FallbackMultiplier(f, r.traffic_index, r.demand_level))
       /\ r.explanation = FallbackExplanation

\* C13: in every state held in the store, appended to the history, staged
\* by a pass or sent to a client, price_multiplier and explanation are the
\* result of scoring (or of the fallback) for the fuel, traffic and demand
\* values of that same record, also when two passes overlap.
C13_RecordsAreConsistent ==
  /\ \A i \in DOMAIN appended : Consistent(appended[i])
  /\ \A i \in DOMAIN pricingHistory : Consistent(pricingHistory[i])
  /\ \A c \in DOMAIN currentPricingData : Consistent(currentPricingData[c])
  /\ \A p \in DOMAIN passes :
       \A c \in DOMAIN passes[p].newData : Consistent(passes[p].newData[c])
  /\ \A s \in DOMAIN sockets :
       sockets[s].inbox # None =>
         \A c \in DOMAIN sockets[s].inbox.data :
           Consistent(sockets[s].inbox.data[c])

\* Two overlapping passes drew different values for the same city, and the
\* pass that started later wrote its record first.
C13_Witness ==
  \E i, j \in DOMAIN appended :
    /\ i < j
    /\ appended[i].city = appended[j].city
    /\ appended[i].pass > appended[j].pass
    /\ appended[i].fuel_price # appended[j].fuel_price

\* C14: a tick pass issues exactly one 'pricing-update' broadcast: none
\* while it is still processing cities, one once it has ended, and the
\* payload holds a state for every configured city, all produced by that
\* pass.
C14_OneBroadcastPerPass ==
  /\ \A p \in DOMAIN passes :
       /\ passes[p].status = "waiting" => passes[p].emitted = 0
       /\ passes[p].status # "waiting" => passes[p].emitted = 1
       /\ passes[p].emitted = 1 =>
            /\ DOMAIN passes[p].newData = CitySet
            /\ \A c \in CitySet : passes[p].newData[c].pass = p
  /\ \A s \in DOMAIN sockets :
       TickMessage(sockets[s]) =>
         \A c \in DOMAIN sockets[s].inbox.data :
           sockets[s].inbox.data[c].pass = sockets[s].inbox.pass

\* C15: for every city, the timestamps of the states successively appended
\* to the history and written to the store never decrease, however the
\* passes and the scoring completions interleave.
C15_TimestampsNeverDecrease ==
  /\ \A i, j \in DOMAIN appended :
       (i < j /\ appended[i].city = appended[j].city) =>
         appended[i].timestamp <= appended[j].timestamp
  /\ \A i, j \in DOMAIN pricingHistory :
       (i < j /\ pricingHistory[i].city = pricingHistory[j].city) =>
         pricingHistory[i].timestamp <= pricingHistory[j].timestamp
  /\ \A c \in DOMAIN currentPricingData :
       \A i \in DOMAIN appended :
         appended[i].city = c =>
           appended[i].timestamp <= currentPricingData[c].timestamp

\* The first pass wrote a city's state after the second pass had written one
\* for the same city.
C15_Witness ==
  \E c \in DOMAIN currentPricingData :
    /\ currentPricingData[c].pass = 1
    /\ \E i \in DOMAIN appended :
         appended[i].city = c /\ appended[i].pass = 2

\* What the registry holds for a city: the forced values and the times at
\* which a removal is due.
OverrideOf(registry, removals, c) ==
  [effects |-> Get(registry, c),
   due |-> {t.due : t \in {u \in removals : u.city = c}}]

\* The step is a scenario request for city x, or the removal callback of a
\* scenario of x.
ScenarioStepFor(x) ==
  \/ posts' = posts + 1 /\ lastResponse'.request.city = x
  \/ \E t \in timeouts \ timeouts' : t.city = x

\* C16: applying a scenario to a city x, and the later removal of that
\* scenario, leave the override of every other city y unchanged: its forced
\* values and the time at which it is removed.
C16_OtherCitiesUntouched ==
  [][\A x \in CitySet :
       ScenarioStepFor(x) =>
         \A y \in CitySet \ {x} :
           OverrideOf(activeScenarios', timeouts', y)
             = OverrideOf(activeScenarios, timeouts, y)]_vars

\* A scenario of one city has run out and been removed while another city
\* still has its override.
C16_Witness ==
  \E x, y \in CitySet :
    /\ x # y
    /\ applied[x] # None /\ applied[y] # None
    /\ now >= applied[x].at + applied[x].effects.duration
    /\ x \notin DOMAIN activeScenarios
    /\ y \in DOMAIN activeScenarios
    /\ \E t \in timeouts : t.city = y

\* The value a sampling used for a field is the override's if the override
\* lists the field, the drawn one otherwise.
FieldFollows(sample, field, used, drawn) ==
  IF sample.scenario # None /\ field \in DOMAIN sample.scenario
  THEN used = sample.scenario[field]
  ELSE used = drawn

\* The state a pass wrote for a city holds the values its sampling used.
WrittenFrom(state, sample) ==
  /\ state.fuel_price = ToFixed2(sample.used.fuelPrice)
  /\ state.traffic_index = sample.used.trafficIndex
  /\ state.demand_level = sample.used.demandLevel

\* C17: when a tick samples a city whose override is in the registry,
\* exactly the fields the override lists take the override's values and the
\* other fields keep the values freshly drawn within their normal ranges; a
\* city without an override keeps all three drawn values; and the state the
\* pass writes for the city holds those values.
C17_OnlyListedFieldsForced ==
  \A c \in CitySet :
    lastSample[c] # None =>
      LET smp == lastSample[c] IN
      /\ smp.drawn.fuelPrice \in 1500..2500
      /\ smp.drawn.trafficIndex \in 1..10
      /\ smp.drawn.demandLevel \in 1..10
      /\ FieldFollows(smp, "fuel_price", smp.used.fuelPrice,
                      smp.drawn.fuelPrice)
      /\ FieldFollows(smp, "traffic_index", smp.used.trafficIndex,
                      smp.drawn.trafficIndex)
      /\ FieldFollows(smp, "demand_level", smp.used.demandLevel,
                      smp.drawn.demandLevel)
      /\ (c \in DOMAIN currentPricingData
            /\ currentPricingData[c].pass = smp.pass) =>
           WrittenFrom(currentPricingData[c], smp)
      /\ c \in DOMAIN passes[smp.pass].newData =>
           WrittenFrom(passes[smp.pass].newData[c], smp)

\* One pass has written the state of a city sampled under an override that
\* lists only some of the fields, and the state of a city sampled without
\* an override.
C17_Witness ==
  \E c, d \in DOMAIN currentPricingData :
    /\ lastSample[c] # None /\ lastSample[d] # None
    /\ lastSample[c].scenario # None
    /\ Cardinality(EffectFields(lastSample[c].scenario)) < 3
    /\ lastSample[d].scenario = None
    /\ currentPricingData[c].pass = lastSample[c].pass
    /\ currentPricingData[d].pass = lastSample[d].pass
    /\ lastSample[c].pass = lastSample[d].pass

\* Every state stored, appended to the history, staged by a pass or sent to
\* a client, as its fuel, traffic and demand values
Values(r) ==
  [fuel_price |-> r.fuel_price, traffic_index |-> r.traffic_index,
   demand_level |-> r.demand_level]

AllStates ==
  {Values(appended[i]) : i \in DOMAIN appended}
    \cup {Values(pricingHistory[i]) : i \in DOMAIN pricingHistory}
    \cup {Values(currentPricingData[c]) : c \in DOMAIN currentPricingData}
    \cup UNION {{Values(passes[p].newData[c]) : c \in DOMAIN passes[p].newData}
                 : p \in DOMAIN passes}
    \cup UNION {IF sockets[s].inbox = None THEN {}
                 ELSE {Values(sockets[s].inbox.data[c])
                         : c \in DOMAIN sockets[s].inbox.data}
                 : s \in DOMAIN sockets}

\* C18: in every state stored, appended to the history or published,
\* traffic_index and demand_level are integers from 1 to 10, with or
\* without an active scenario.
C18_IndicesInRange ==
  \A r \in AllStates :
    r.traffic_index \in 1..10 /\ r.demand_level \in 1..10

\* States at both ends of the range have been written, one of them for a
\* city sampled under an override.
C18_Witness ==
  /\ \E r \in AllStates : r.traffic_index = 1 /\ r.demand_level = 1
  /\ \E r \in AllStates : r.traffic_index = 10 /\ r.demand_level = 10
  /\ \E c \in DOMAIN currentPricingData :
       /\ lastSample[c] # None
       /\ lastSample[c].scenario # None
       /\ lastSample[c].drawn.trafficIndex = 1
       /\ currentPricingData[c].pass = lastSample[c].pass

\* C19: in every state stored, appended to the history or published,
\* fuel_price lies in [1.50, 2.50], also while a scenario override is
\* active for the city.
C19_FuelInRange ==
  \A r \in AllStates : r.fuel_price \in 150..250

IsPricingResponse ==
  "path" \in DOMAIN lastResponse /\ lastResponse.path = "/api/pricing"

\* C20: a GET /api/pricing request is answered with the current snapshot: a
\* mapping that holds the latest stored state of every configured city.
C20_PricingSnapshotServed ==
  IsPricingResponse =>
    /\ lastResponse.status = 200
    /\ "body" \in DOMAIN lastResponse
    /\ DOMAIN lastResponse.body = CitySet
    /\ \A c \in CitySet : lastResponse.body[c] = currentPricingData[c]

\* C21: the chart of a city, built from a history just fetched, contains
\* every pricing update of that city that the server generated within the
\* last 5 minutes.
C21_ChartCoversFiveMinutes ==
  IsHistoryResponse =>
    \A c \in CitySet :
      LET chart == ChartData(lastResponse.history, c, now) IN
      \A i \in DOMAIN appended :
        (appended[i].city = c /\ appended[i].timestamp > now - CHART_WINDOW)
          => \E k \in DOMAIN chart : chart[k] = ChartPoint(appended[i])

\* C26: the chart's series is in chronological order, oldest first and
\* newest last, and its last element (the 'Current Multiplier' summary) is
\* the most recent history record of the city.
C26_ChartIsChronological ==
  IsHistoryResponse =>
    \A c \in CitySet :
      LET chart == ChartData(lastResponse.history, c, now)
          ofCity == CityRecords(lastResponse.history, c) IN
      /\ \A i, j \in DOMAIN chart : i < j => chart[i].time <= chart[j].time
      /\ Len(chart) > 0 =>
           chart[Len(chart)] = ChartPoint(ofCity[Len(ofCity)])

\* C27: the modal shows at most 30 rows, the most recent history records of
\* the city, newest first: row k is the k-th newest record of the city in
\* the history, so the first row is the city's latest record.
C27_ModalShowsLatestThirty ==
  IsHistoryResponse =>
    \A c \in CitySet :
      LET rows == ModalRows(lastResponse.history, c)
          ofCity == CityRecords(lastResponse.history, c) IN
      /\ Len(rows) <= MODAL_ROWS
      /\ Len(rows) = Len(ofCity) \/ Len(rows) = MODAL_ROWS
      /\ \A k \in DOMAIN rows : rows[k] = ofCity[Len(ofCity) - k + 1]

\* A fetched history holds more than 30 records of a city.
C27_Witness ==
  /\ IsHistoryResponse
  /\ \E c \in CitySet : Len(CityRecords(lastResponse.history, c)) > MODAL_ROWS

\* The state was pushed to the history, and the store holds it or a state of
\* the city written after it.
AlreadyWritten(c, state) ==
  /\ c \in DOMAIN currentPricingData
  /\ \E i \in DOMAIN appended :
       /\ appended[i] = HistoryRecord(c, state)
       /\ \/ currentPricingData[c] = state
          \/ \E j \in DOMAIN appended :
               j > i /\ appended[j] = HistoryRecord(c, currentPricingData[c])

\* C22: when a pass has published its snapshot, the state of every city in
\* that snapshot has already been written to the store and appended to the
\* history.
C22_WrittenBeforePublished ==
  /\ \A p \in DOMAIN passes :
       passes[p].emitted > 0 =>
         \A c \in DOMAIN passes[p].newData :
           AlreadyWritten(c, passes[p].newData[c])
  /\ \A s \in DOMAIN sockets :
       TickMessage(sockets[s]) =>
         \A c \in DOMAIN sockets[s].inbox.data :
           AlreadyWritten(c, sockets[s].inbox.data[c])

\* A client holds the snapshot a pass published, and a later pass has
\* already overwritten a city of it in the store.
C22_Witness ==
  \E s \in DOMAIN sockets :
    /\ TickMessage(sockets[s])
    /\ DOMAIN sockets[s].inbox.data = CitySet
    /\ \E c \in CitySet :
         currentPricingData[c] # sockets[s].inbox.data[c]

\* The process exited with code 0 and the first line of its output is a
\* number; it is the first event the process emitted.
CleanExit(events) ==
  /\ events[1].event = "close"
  /\ events[1].code = 0
  /\ Len(events[1].stdout) >= 1
  /\ events[1].stdout[1].numeric

\* C23: a call of getPriceMultiplier settles at most once; it resolves, with
\* the number of the first output line and the second line (or the default
\* text) as explanation, exactly when the process exited with code 0 and
\* the first line is a number; it rejects when the process fails to start,
\* exits with another code or prints a first line that is not a number.
C23_ScoringCallSettlesOnce ==
  \A p \in DOMAIN passes :
    passes[p].lastCall # None =>
      LET events == passes[p].lastCall.events
          promise == passes[p].lastCall.promise IN
      /\ promise.settles = 1
      /\ promise.state = "fulfilled" <=> CleanExit(events)
      /\ promise.state = "rejected" <=> ~CleanExit(events)
      /\ promise.state = "fulfilled" =>
           /\ promise.result.priceMultiplier = events[1].stdout[1].value
           /\ promise.result.explanation =
                IF Len(events[1].stdout) >= 2 THEN events[1].stdout[2].text
                ELSE DefaultExplanation

\* A pass whose call for one city resolved with the default explanation and
\* whose call for a later city rejected after its process emitted both
\* 'error' and 'close'.
C23_Witness ==
  \E p \in DOMAIN passes :
    /\ \E c \in DOMAIN passes[p].newData :
         passes[p].newData[c].explanation = DefaultExplanation
    /\ passes[p].lastCall # None
    /\ Len(passes[p].lastCall.events) = 2
    /\ passes[p].lastCall.promise.state = "rejected"

\* C24: at most one tick pass is in progress at any time: no pass starts
\* while an earlier one is still waiting for a scoring result, and the
\* history records of two passes are never interleaved.
C24_OnePassAtATime ==
  /\ \A p, q \in DOMAIN passes :
       (passes[p].status = "waiting" /\ passes[q].status = "waiting") => p = q
  /\ \A i, j \in DOMAIN appended :
       i < j => appended[i].pass <= appended[j].pass

SameFields(rec, state) ==
  /\ rec.fuel_price = state.fuel_price
  /\ rec.traffic_index = state.traffic_index
  /\ rec.demand_level = state.demand_level
  /\ rec.price_multiplier = state.price_multiplier
  /\ rec.explanation = state.explanation
  /\ rec.timestamp = state.timestamp

\* C25: for every city that has a state in the store and at least one
\* record in the history, the newest history record of that city has the
\* same fuel_price, traffic_index, demand_level, price_multiplier,
\* explanation and timestamp as the store's state for it.
C25_NewestRecordIsStoreState ==
  \A c \in DOMAIN currentPricingData :
    LET ofCity == CityRecords(pricingHistory, c) IN
    Len(ofCity) > 0 =>
      SameFields(ofCity[Len(ofCity)], currentPricingData[c])

\* The history has overflowed and the states of two cities in the store
\* were written by different passes.
C25_Witness ==
  /\ Len(appended) > HISTORY_LIMIT
  /\ \E c, d \in DOMAIN currentPricingData :
       currentPricingData[c].pass # currentPricingData[d].pass

\* C28: whenever the control panel shows a scenario (eventType, city) as
\* active, the server's registry holds an override for that city whose
\* forced fields and values are those of eventType, whatever scenarios were
\* triggered from the panel.
C28_PanelMatchesRegistry ==
  \A e \in EventTypes, c \in CitySet :
    isScenarioActive(e, c) =>
      /\ c \in DOMAIN activeScenarios
      /\ activeScenarios[c] = SCENARIO_EFFECTS[e]

\* The reconnection effect has run for the current values of isConnected
\* and socket.
EffectHasRun == hook.deps = <<hook.isConnected, hook.socket>>

\* C29: while the hook holds a socket and is not connected, a reconnect
\* attempt is in flight or one is due within 3 seconds, by the hook's timer
\* (socket.connect) or by the socket's own reconnection, also after an
\* attempt has failed; and once the connection is there no reconnect timer
\* is pending.  (Between a change of isConnected or socket and the run of
\* the effect that follows it, nothing is asked.)
C29_ReconnectsUntilConnected ==
  EffectHasRun =>
    /\ (hook.socket /\ ~hook.isConnected) =>
         \/ hook.connecting
         \/ hook.timer # 0 /\ hook.timer <= now + RECONNECT_DELAY
         \/ hook.retryAt # 0 /\ hook.retryAt <= now + RECONNECT_DELAY
    /\ hook.isConnected => hook.timer = 0 /\ hook.retryAt = 0
====
